---------------------------- MODULE Spec2Model ----------------------------
(***************************************************************************)
(* A model of the metrics demultiplexer of the agent:                      *)
(*   - the DogStatsD topology sizer (getDogStatsDWorkerAndPipelineCount),  *)
(*   - the senders registry of the Demultiplexer interface,                *)
(*   - the sharded flush path (flush triggers, iterable sinks and the      *)
(*     sendIterableSeries routine) and the demultiplexer lifecycle,        *)
(*   - the default sender and the no-aggregation (late metrics) pipeline,  *)
(* and of its collaborators: the Windows container provider, the PodCheck  *)
(* stub and the log schedulers exercised by TestSchedulers.                *)
(* Each part has its own specification: SpecSizer, SpecSenders, SpecDemux, *)
(* SpecDefault, SpecLate, SpecProvider, SpecBatches, SpecPod, SpecSched,   *)
(* and SpecLoop for the batching loop of the provider's Prefetch.          *)
(***************************************************************************)
EXTENDS Integers, Sequences, FiniteSets, TLC

VARIABLES
    \* ---- topology sizer --------------------------------------------------
    vCPUs,            \* argument of getDogStatsDWorkerAndPipelineCount
    cfgPipelineCount, \* config "dogstatsd_pipeline_count"
    autoAdjust,       \* config "dogstatsd_pipeline_autoadjust"
    sizerPc,          \* "init" before the call, "done" after it returned
    dsdWorkerCount,   \* first returned value
    pipelineCount,    \* second returned value
    warned,           \* whether log.Warn was emitted by the call
    \* ---- senders registry ------------------------------------------------
    registry,         \* check.ID -> registered Sender handle (NoSender: none)
    sendersMu,        \* owner of the registry's mutex (NoCaller: free)
    cpc,              \* per caller: position in the operation it runs
    cop,              \* per caller: the operation and its arguments
    cres,             \* per caller: what its last operation returned
    succ,             \* per id: SetSender successes since id was last absent
    fail,             \* per id: SetSender failures since id was last absent
    nCalls,           \* number of operations started so far
    \* ---- demultiplexer: lifecycle and flush path --------------------------
    state,            \* "Created", "Running" or "Stopped"
    stopping,         \* Stop(flush=true) is running its final flush
    fpc,              \* the flush caller: "idle" (no call yet), "dispatch",
                      \* "wait", "returned" (its last call has returned)
    fwait,            \* waitForSerializer of the flush in progress
    fnext,            \* next shard the caller dispatches a trigger to
    nFlush,           \* number of flushes started so far
    nSamples,         \* number of samples submitted so far
    inbound,          \* per shard: its inbound channel (batches and triggers)
    window,           \* per shard: the samples of its aggregation window
    shardPc,          \* per shard: "recv" or "flush" (streaming into the sink)
    pending,          \* per shard: what the flush has still to append
    flushedOut,       \* per shard: the window its last flush took
    sink,             \* per shard: the iterable series sink / source
    blockChan,        \* per shard: the trigger's blockChan
    sendPc,           \* per shard: position of its sendIterableSeries routine
    sendErr,          \* per shard: SendIterableSeries returned an error
    sent,             \* per shard: series the serializer consumed
    flushCount,       \* per shard: count given to addFlushCount
    enqSince,         \* per shard: samples enqueued since the last trigger
    expected,         \* per shard: enqSince when the last trigger was dispatched
    \* ---- default sender ---------------------------------------------------
    defaultSender,    \* the registry's default sender (NoSender: not created)
    nCreated,         \* number of default senders created so far
    dpc,              \* per caller: position in GetDefaultSender
    dres,             \* per caller: what its last GetDefaultSender returned
    nDefCalls,        \* number of GetDefaultSender calls started so far
    \* ---- late metrics and time samples ------------------------------------
    clock,            \* the agent's current time
    buckets,          \* time sampler: bucket start -> ids of its samples
    lateBuf,          \* no-aggregation pipeline: the late metrics it holds
    lateOut,          \* the entries of the last flush
    submitted,        \* every sample submitted so far, by id
    nLateFlush,       \* number of flushes so far
    \* ---- container provider (provider.go) ---------------------------------
    containers,       \* mp.containers: the published snapshot
    agentCID,         \* mp.agentCID (NoCID: nil, or a container id)
    prefetchLock,     \* owner of mp.prefetchLock (NoRoutine: free)
    containersLock,   \* mp.containersLock: its writer and its readers
    rpc,              \* per routine: position in the call it runs
    rop,              \* per routine: the call and its container id
    rres,             \* per routine: what its last call returned
    rawContainers,    \* per routine: the listing of its Prefetch
    localMap,         \* per routine: the local `containers` of its Prefetch
    batchesDone,      \* per routine: the batch workers that have finished
    fault,            \* per routine: the container docker fails on, and how
    nProvCalls,       \* number of provider calls started so far
    published,        \* the listing the published snapshot was built from
    lastPrefetch,     \* outcome of the Prefetch that returned last
    \* ---- PodCheck stub (pod_null.go) --------------------------------------
    sysInfo,          \* c.sysInfo
    podLast,          \* the last call on the check and what it returned
    nPodCalls,        \* number of calls on the check so far
    \* ---- log schedulers (TestSchedulers) ----------------------------------
    schedulers,       \* ss.schedulers, in registration order
    started,          \* per scheduler: testSched.started
    stopped,          \* per scheduler: testSched.stopped
    schPc,            \* position of the test: "add", "start", "run", "stop", "end"
    schIdx,           \* next scheduler Start / Stop calls
    \* ---- batching loop of Prefetch (provider.go) --------------------------
    loopPc,           \* "idle", "loop" (in the for loop), "wait" (at wg.Wait)
    loopLen,          \* len(rawContainers)
    loopI,            \* the loop variable i
    loopBatches       \* the start indexes of the workers spawned so far

sizerVars == <<vCPUs, cfgPipelineCount, autoAdjust, sizerPc, dsdWorkerCount,
               pipelineCount, warned>>

sendersVars == <<registry, sendersMu, cpc, cop, cres, succ, fail, nCalls>>

lifecycleVars == <<state, stopping>>

callerVars == <<fpc, fwait, fnext, nFlush>>

shardVars == <<inbound, window, shardPc, pending, flushedOut, nSamples,
               enqSince, expected>>

sinkVars == <<sink, blockChan, sendPc, sendErr, sent, flushCount>>

demuxVars == <<lifecycleVars, callerVars, shardVars, sinkVars>>

defaultVars == <<defaultSender, nCreated, dpc, dres, nDefCalls>>

lateVars == <<clock, buckets, lateBuf, lateOut, submitted, nLateFlush>>

locksVars == <<prefetchLock, containersLock>>

routineVars == <<rpc, rop, rres, nProvCalls>>

prefetchVars == <<rawContainers, localMap, batchesDone, fault>>

snapshotVars == <<containers, agentCID, published, lastPrefetch>>

providerVars == <<locksVars, routineVars, prefetchVars, snapshotVars>>

podVars == <<sysInfo, podLast, nPodCalls>>

schedVars == <<schedulers, started, stopped, schPc, schIdx>>

loopVars == <<loopPc, loopLen, loopI, loopBatches>>

collabVars == <<providerVars, podVars, schedVars>>

vars == <<sizerVars, sendersVars, demuxVars, defaultVars, lateVars, collabVars,
          loopVars>>

\* What the operations of one part leave alone: the state of the other parts.
nonSizerVars == <<sendersVars, demuxVars, defaultVars, lateVars, collabVars,
                  loopVars>>
nonSendersVars == <<sizerVars, demuxVars, defaultVars, lateVars, collabVars,
                    loopVars>>
nonDemuxVars == <<sizerVars, sendersVars, defaultVars, lateVars, collabVars,
                  loopVars>>
\* GetDefaultSender runs under the registry's mutex, sendersMu.
nonDefaultVars == <<sizerVars, demuxVars, lateVars, collabVars, loopVars,
                    registry, cpc, cop, cres, succ, fail, nCalls>>
nonLateVars == <<sizerVars, sendersVars, demuxVars, defaultVars, collabVars,
                 loopVars>>
nonProviderVars == <<sizerVars, sendersVars, demuxVars, defaultVars, lateVars,
                     podVars, schedVars, loopVars>>
nonPodVars == <<sizerVars, sendersVars, demuxVars, defaultVars, lateVars,
                providerVars, schedVars, loopVars>>
nonSchedVars == <<sizerVars, sendersVars, demuxVars, defaultVars, lateVars,
                  providerVars, podVars, loopVars>>
nonLoopVars == <<sizerVars, sendersVars, demuxVars, defaultVars, lateVars,
                 collabVars>>

----------------------------------------------------------------------------
(* Generic helpers *)

Max(a, b) == IF a >= b THEN a ELSE b

\* Go's integer division truncates toward zero (TLA+'s \div floors).
GoDiv(a, b) ==
    IF a >= 0 THEN a \div b ELSE 0 - ((0 - a) \div b)

----------------------------------------------------------------------------
(* Topology sizer: bounds of the inputs that are explored *)

MaxVCPUs == 10
NegVCPUs == 2
MaxCfgPipelines == 6
NegCfgPipelines == 2

VCPURange == (0 - NegVCPUs)..MaxVCPUs
CfgPipelineRange == (0 - NegCfgPipelines)..MaxCfgPipelines

\* The manual branch without the "minimum 2 workers" floor.
SizeNoWorkerFloor(v, cfgCount, auto) ==
    IF ~auto
    THEN LET p == IF cfgCount <= 0 THEN 1 ELSE cfgCount
         IN  [workers |-> v - 1 - p, pipelines |-> p, warn |-> FALSE]
    ELSE LET w == IF GoDiv(v, 2) < 2 THEN 2 ELSE GoDiv(v, 2)
             p == IF w - 1 <= 0 THEN 1 ELSE w - 1
         IN  [workers |-> w, pipelines |-> p, warn |-> cfgCount > 1]

\* The manual branch without the guard against a non-positive pipeline count.
SizeNoPipelineGuard(v, cfgCount, auto) ==
    IF ~auto
    THEN LET p == cfgCount
             w == v - 1 - p
         IN  [workers |-> IF w < 2 THEN 2 ELSE w, pipelines |-> p, warn |-> FALSE]
    ELSE LET w == IF GoDiv(v, 2) < 2 THEN 2 ELSE GoDiv(v, 2)
             p == IF w - 1 <= 0 THEN 1 ELSE w - 1
         IN  [workers |-> w, pipelines |-> p, warn |-> cfgCount > 1]

\* The auto branch honouring a configured pipeline count greater than 1.
SizeAutoUsesConfig(v, cfgCount, auto) ==
    IF ~auto
    THEN LET p == IF cfgCount <= 0 THEN 1 ELSE cfgCount
             w == v - 1 - p
         IN  [workers |-> IF w < 2 THEN 2 ELSE w, pipelines |-> p, warn |-> FALSE]
    ELSE LET w == IF GoDiv(v, 2) < 2 THEN 2 ELSE GoDiv(v, 2)
             p == IF cfgCount > 1 THEN cfgCount
                  ELSE IF w - 1 <= 0 THEN 1 ELSE w - 1
         IN  [workers |-> w, pipelines |-> p, warn |-> cfgCount > 1]

\* Both branches forgetting the core reserved for the listener routine.
SizeNoListenerCore(v, cfgCount, auto) ==
    IF ~auto
    THEN LET p == IF cfgCount <= 0 THEN 1 ELSE cfgCount
             w == v - p
         IN  [workers |-> IF w < 2 THEN 2 ELSE w, pipelines |-> p, warn |-> FALSE]
    ELSE LET w == IF GoDiv(v, 2) < 2 THEN 2 ELSE GoDiv(v, 2)
             p == w
         IN  [workers |-> w, pipelines |-> p, warn |-> cfgCount > 1]

\* getDogStatsDWorkerAndPipelineCount(vCPUs) with the two configuration
\* values it reads passed as arguments.
getDogStatsDWorkerAndPipelineCount(v, cfgCount, auto) ==
    IF ~auto
    THEN LET p == IF cfgCount <= 0 THEN 1 ELSE cfgCount
             w == v - 1 - p
         IN  [workers |-> IF w < 2 THEN 2 ELSE w, pipelines |-> p, warn |-> FALSE]
    ELSE LET w == IF GoDiv(v, 2) < 2 THEN 2 ELSE GoDiv(v, 2)
             p == IF w - 1 <= 0 THEN 1 ELSE w - 1
         IN  [workers |-> w, pipelines |-> p, warn |-> cfgCount > 1]

SizerInit ==
    /\ vCPUs \in VCPURange
    /\ cfgPipelineCount \in CfgPipelineRange
    /\ autoAdjust \in BOOLEAN
    /\ sizerPc = "init"
    /\ dsdWorkerCount = 0
    /\ pipelineCount = 0
    /\ warned = FALSE

\* One call of getDogStatsDWorkerAndPipelineCount.
SizerCall ==
    /\ sizerPc = "init"
    /\ LET r == getDogStatsDWorkerAndPipelineCount(vCPUs, cfgPipelineCount, autoAdjust)
       IN  /\ dsdWorkerCount' = r.workers
           /\ pipelineCount' = r.pipelines
           /\ warned' = r.warn
    /\ sizerPc' = "done"
    /\ UNCHANGED <<vCPUs, cfgPipelineCount, autoAdjust>>
    /\ UNCHANGED nonSizerVars

SizerNext == SizerCall

\* The sizer at rest, for the specifications of the other parts.
SizerIdle ==
    /\ vCPUs = 1
    /\ cfgPipelineCount = 1
    /\ autoAdjust = FALSE
    /\ sizerPc = "init"
    /\ dsdWorkerCount = 0
    /\ pipelineCount = 0
    /\ warned = FALSE

----------------------------------------------------------------------------
(* Senders registry (Senders API of the Demultiplexer interface).          *)
(* GetSender, SetSender and DestroySender each run under the registry's    *)
(* single mutex; SetSender is a check of the map followed by an insert.    *)

NumCallers == 2
NumIDs == 2
NumSenders == 2
MaxCalls == 3

Callers == 1..NumCallers
CheckIDs == 1..NumIDs
Senders == 1..NumSenders
NoSender == 0
NoCaller == 0

NoOp == [op |-> "none", id |-> 0, sender |-> NoSender]
NoRes == [err |-> "none", sender |-> NoSender]

SendersInit ==
    /\ registry = [i \in CheckIDs |-> NoSender]
    /\ sendersMu = NoCaller
    /\ cpc = [c \in Callers |-> "idle"]
    /\ cop = [c \in Callers |-> NoOp]
    /\ cres = [c \in Callers |-> NoRes]
    /\ succ = [i \in CheckIDs |-> 0]
    /\ fail = [i \in CheckIDs |-> 0]
    /\ nCalls = 0

\* A caller starts GetSender(id), SetSender(sender, id) or DestroySender(id).
SendersCall(c) ==
    /\ cpc[c] = "idle"
    /\ nCalls < MaxCalls
    /\ \E o \in {"GetSender", "SetSender", "DestroySender"}, i \in CheckIDs :
         \E s \in (IF o = "SetSender" THEN Senders ELSE {NoSender}) :
            cop' = [cop EXCEPT ![c] = [op |-> o, id |-> i, sender |-> s]]
    /\ cpc' = [cpc EXCEPT ![c] = "lock"]
    /\ cres' = [cres EXCEPT ![c] = NoRes]
    /\ nCalls' = nCalls + 1
    /\ UNCHANGED <<registry, sendersMu, succ, fail>>
    /\ UNCHANGED nonSendersVars

\* A registry whose mutex excludes nobody.
MutexNeverHeld(c) == TRUE

\* Whether caller c may take the registry's mutex.
MutexFree(c) == sendersMu = NoCaller

\* The caller enters the registry-wide exclusive section.
SendersLock(c) ==
    /\ cpc[c] = "lock"
    /\ MutexFree(c)
    /\ sendersMu' = c
    /\ cpc' = [cpc EXCEPT ![c] = IF cop[c].op = "SetSender" THEN "check" ELSE "body"]
    /\ UNCHANGED <<registry, cop, cres, succ, fail, nCalls>>
    /\ UNCHANGED nonSendersVars

\* SetSender, first half: is a live sender registered for id?
SetSenderCheck(c) ==
    /\ cpc[c] = "check"
    /\ cpc' = [cpc EXCEPT ![c] =
                 IF registry[cop[c].id] # NoSender THEN "reject" ELSE "insert"]
    /\ UNCHANGED <<registry, sendersMu, cop, cres, succ, fail, nCalls>>
    /\ UNCHANGED nonSendersVars

\* A SetSender that replaces the registered sender while reporting the conflict.
RejectOverwrites(reg, i, s) == [reg EXCEPT ![i] = s]

\* The registry after a SetSender(s, i) that found a live sender for i.
RegistryAfterReject(reg, i, s) == reg

\* SetSender, conflict: fails with AlreadyExists, the map is left as it is.
SetSenderReject(c) ==
    /\ cpc[c] = "reject"
    /\ registry' = RegistryAfterReject(registry, cop[c].id, cop[c].sender)
    /\ cres' = [cres EXCEPT ![c] = [err |-> "AlreadyExists", sender |-> NoSender]]
    /\ fail' = [fail EXCEPT ![cop[c].id] = @ + 1]
    /\ cpc' = [cpc EXCEPT ![c] = "unlock"]
    /\ UNCHANGED <<sendersMu, cop, succ, nCalls>>
    /\ UNCHANGED nonSendersVars

\* SetSender, no conflict: registers sender as the owner for id.
SetSenderInsert(c) ==
    /\ cpc[c] = "insert"
    /\ registry' = [registry EXCEPT ![cop[c].id] = cop[c].sender]
    /\ cres' = [cres EXCEPT ![c] = [err |-> "nil", sender |-> NoSender]]
    /\ succ' = [succ EXCEPT ![cop[c].id] = @ + 1]
    /\ cpc' = [cpc EXCEPT ![c] = "unlock"]
    /\ UNCHANGED <<sendersMu, cop, fail, nCalls>>
    /\ UNCHANGED nonSendersVars

\* GetSender: the existing sender for id, or NotFound.
GetSender(c) ==
    /\ cpc[c] = "body"
    /\ cop[c].op = "GetSender"
    /\ cres' = [cres EXCEPT ![c] =
                  IF registry[cop[c].id] = NoSender
                  THEN [err |-> "NotFound", sender |-> NoSender]
                  ELSE [err |-> "nil", sender |-> registry[cop[c].id]]]
    /\ cpc' = [cpc EXCEPT ![c] = "unlock"]
    /\ UNCHANGED <<registry, sendersMu, cop, succ, fail, nCalls>>
    /\ UNCHANGED nonSendersVars

\* A DestroySender that drops the whole map.
DestroyClearsAll(reg, i) == [j \in DOMAIN reg |-> NoSender]

\* The registry after DestroySender(i): the mapping of i is removed.
RegistryAfterDestroy(reg, i) == [reg EXCEPT ![i] = NoSender]

\* DestroySender: removes the mapping; no error if it is already absent.
DestroySender(c) ==
    /\ cpc[c] = "body"
    /\ cop[c].op = "DestroySender"
    /\ registry' = RegistryAfterDestroy(registry, cop[c].id)
    /\ cres' = [cres EXCEPT ![c] = [err |-> "nil", sender |-> NoSender]]
    /\ succ' = [i \in CheckIDs |-> IF registry'[i] = NoSender THEN 0 ELSE succ[i]]
    /\ fail' = [i \in CheckIDs |-> IF registry'[i] = NoSender THEN 0 ELSE fail[i]]
    /\ cpc' = [cpc EXCEPT ![c] = "unlock"]
    /\ UNCHANGED <<sendersMu, cop, nCalls>>
    /\ UNCHANGED nonSendersVars

\* The caller leaves the exclusive section and returns.
SendersUnlock(c) ==
    /\ cpc[c] = "unlock"
    /\ sendersMu' = IF sendersMu = c THEN NoCaller ELSE sendersMu
    /\ cpc' = [cpc EXCEPT ![c] = "idle"]
    /\ UNCHANGED <<registry, cop, cres, succ, fail, nCalls>>
    /\ UNCHANGED nonSendersVars

SendersNext ==
    \E c \in Callers :
        \/ SendersCall(c)
        \/ SendersLock(c)
        \/ SetSenderCheck(c)
        \/ SetSenderReject(c)
        \/ SetSenderInsert(c)
        \/ GetSender(c)
        \/ DestroySender(c)
        \/ SendersUnlock(c)

----------------------------------------------------------------------------
(* Default sender (GetDefaultSender of the Senders API): under the         *)
(* registry's mutex, the sender is created if there is none yet and the    *)
(* registry's default sender is returned.                                  *)

MaxDefCalls == 6

DefaultInit ==
    /\ defaultSender = NoSender
    /\ nCreated = 0
    /\ dpc = [c \in Callers |-> "idle"]
    /\ dres = [c \in Callers |-> NoRes]
    /\ nDefCalls = 0

\* A caller starts GetDefaultSender().
DefaultCall(c) ==
    /\ dpc[c] = "idle"
    /\ nDefCalls < MaxDefCalls
    /\ dpc' = [dpc EXCEPT ![c] = "lock"]
    /\ dres' = [dres EXCEPT ![c] = NoRes]
    /\ nDefCalls' = nDefCalls + 1
    /\ UNCHANGED <<defaultSender, nCreated, sendersMu>>
    /\ UNCHANGED nonDefaultVars

\* The caller enters the registry-wide exclusive section.
DefaultLock(c) ==
    /\ dpc[c] = "lock"
    /\ MutexFree(c)
    /\ sendersMu' = c
    /\ dpc' = [dpc EXCEPT ![c] = "check"]
    /\ UNCHANGED <<defaultSender, nCreated, dres, nDefCalls>>
    /\ UNCHANGED nonDefaultVars

\* A GetDefaultSender that makes a new sender on every call.
DefaultAlwaysMissing == TRUE

\* Whether the default sender has still to be created.
DefaultMissing == defaultSender = NoSender

\* There is no default sender yet: a new one is created and kept.
DefaultCreate(c) ==
    /\ dpc[c] = "check"
    /\ DefaultMissing
    /\ nCreated' = nCreated + 1
    /\ defaultSender' = nCreated + 1
    /\ dpc' = [dpc EXCEPT ![c] = "ret"]
    /\ UNCHANGED <<dres, nDefCalls, sendersMu>>
    /\ UNCHANGED nonDefaultVars

\* The default sender exists already.
DefaultReuse(c) ==
    /\ dpc[c] = "check"
    /\ ~DefaultMissing
    /\ dpc' = [dpc EXCEPT ![c] = "ret"]
    /\ UNCHANGED <<defaultSender, nCreated, dres, nDefCalls, sendersMu>>
    /\ UNCHANGED nonDefaultVars

\* The caller returns the default sender and leaves the exclusive section.
DefaultReturn(c) ==
    /\ dpc[c] = "ret"
    /\ dres' = [dres EXCEPT ![c] = [err |-> "nil", sender |-> defaultSender]]
    /\ sendersMu' = IF sendersMu = c THEN NoCaller ELSE sendersMu
    /\ dpc' = [dpc EXCEPT ![c] = "idle"]
    /\ UNCHANGED <<defaultSender, nCreated, nDefCalls>>
    /\ UNCHANGED nonDefaultVars

DefaultNext ==
    \E c \in Callers :
        \/ DefaultCall(c)
        \/ DefaultLock(c)
        \/ DefaultCreate(c)
        \/ DefaultReuse(c)
        \/ DefaultReturn(c)

----------------------------------------------------------------------------
(* Late metrics (AddLateMetrics) and time samples of one context.  A time  *)
(* sample carries no timestamp and is aggregated in the bucket of the time *)
(* it arrives at; a late metric carries its timestamp and goes through the *)
(* no-aggregation pipeline.  A sample is named by its position in          *)
(* `submitted`; every sample has value 1.                                  *)

MaxClock == 3
BucketSize == 2
MaxSubmitted == 3
MaxLateBatch == 2
MaxLateFlushes == 2

StartTime == 1
Timestamps == StartTime..MaxClock
NoTimestamp == 0

BucketStart(ts) == ts - (ts % BucketSize)

LateInit ==
    /\ clock = StartTime
    /\ buckets = [b \in {} |-> {}]
    /\ lateBuf = <<>>
    /\ lateOut = {}
    /\ submitted = <<>>
    /\ nLateFlush = 0

\* Time passes.
Tick ==
    /\ clock < MaxClock
    /\ clock' = clock + 1
    /\ UNCHANGED <<buckets, lateBuf, lateOut, submitted, nLateFlush>>
    /\ UNCHANGED nonLateVars

\* The bucket map after the samples ids are added to the bucket starting at b.
IntoBucket(bk, b, ids) ==
    [x \in DOMAIN bk \cup {b} |->
        IF x = b THEN (IF b \in DOMAIN bk THEN bk[b] ELSE {}) \cup ids
                 ELSE bk[x]]

\* The ids of the next k samples.
NextIds(k) == (Len(submitted) + 1)..(Len(submitted) + k)

\* A time sample (no timestamp): aggregated in the current bucket.
TimeSample ==
    /\ Len(submitted) < MaxSubmitted
    /\ submitted' = Append(submitted, [late |-> FALSE, ts |-> NoTimestamp])
    /\ buckets' = IntoBucket(buckets, BucketStart(clock), NextIds(1))
    /\ UNCHANGED <<clock, lateBuf, lateOut, nLateFlush>>
    /\ UNCHANGED nonLateVars

\* Late metrics aggregated by the time sampler, in the bucket of their timestamp.
LateIntoWindow == "window"

\* The pipeline AddLateMetrics pushes its metrics in.
LatePipeline == "noagg"

\* AddLateMetrics(batch): k metrics carrying the timestamp ts.
AddLateMetrics ==
    \E ts \in Timestamps, k \in 1..MaxLateBatch :
        /\ Len(submitted) + k <= MaxSubmitted
        /\ submitted' = submitted \o [j \in 1..k |-> [late |-> TRUE, ts |-> ts]]
        /\ IF LatePipeline = "noagg"
           THEN /\ lateBuf' = lateBuf \o [j \in 1..k |-> Len(submitted) + j]
                /\ UNCHANGED buckets
           ELSE /\ buckets' = IntoBucket(buckets, BucketStart(ts), NextIds(k))
                /\ UNCHANGED lateBuf
        /\ UNCHANGED <<clock, lateOut, nLateFlush>>
        /\ UNCHANGED nonLateVars

\* The series of the time sampler: one per bucket, the sum of its samples.
WindowSeries ==
    {[ts |-> b, value |-> Cardinality(buckets[b]), src |-> buckets[b]] :
        b \in DOMAIN buckets}

\* The series of the no-aggregation pipeline: each metric as it was pushed.
LateSeries ==
    {[ts |-> submitted[lateBuf[j]].ts, value |-> 1, src |-> {lateBuf[j]}] :
        j \in 1..Len(lateBuf)}

\* A flush: both pipelines hand their series over and start afresh.
LateFlush ==
    /\ nLateFlush < MaxLateFlushes
    /\ lateOut' = WindowSeries \cup LateSeries
    /\ buckets' = [b \in {} |-> {}]
    /\ lateBuf' = <<>>
    /\ nLateFlush' = nLateFlush + 1
    /\ UNCHANGED <<clock, submitted>>
    /\ UNCHANGED nonLateVars

LateNext ==
    \/ Tick
    \/ TimeSample
    \/ AddLateMetrics
    \/ LateFlush

----------------------------------------------------------------------------
(* Demultiplexer: lifecycle (Run / Stop) and the sharded flush path.       *)
(* A producer puts batches on a shard's inbound channel; the flush caller  *)
(* puts one flushTrigger per shard on the same channel; the shard streams  *)
(* its window into the trigger's series sink, which a sendIterableSeries   *)
(* routine drains toward the serializer.  A sample is represented by the   *)
(* number of triggers its shard had been sent when it was enqueued.        *)

NumShards == 2
ChannelSize == 2
BufferSize == 1
MaxBatch == 2
MaxSamples == 2
MaxFlushes == 2
MaxFailingShards == 1

Shards == 1..NumShards
\* The shards whose SendIterableSeries call may return an error.
FailingShards == 1..MaxFailingShards
FirstShard == 1

BatchMsg(k, e) == [kind |-> "batch", n |-> k, tag |-> e]
TriggerMsg == [kind |-> "flush", n |-> 0, tag |-> 0]

NewSink == [buf |-> <<>>, closed |-> FALSE, count |-> 0]

RECURSIVE Repeat(_, _)
Repeat(e, k) == IF k = 0 THEN <<>> ELSE <<e>> \o Repeat(e, k - 1)

\* Number of triggers dispatched to shard s so far.
trigEpoch(s) == IF fpc = "dispatch" /\ s >= fnext THEN nFlush - 1 ELSE nFlush

HasTrigger(s) == \E k \in 1..Len(inbound[s]) : inbound[s][k].kind = "flush"

\* The previous flush is over: the caller runs one flush at a time.
FlushQuiescent ==
    \A s \in Shards :
        /\ sendPc[s] \in {"off", "done"}
        /\ shardPc[s] = "recv"
        /\ ~HasTrigger(s)

DemuxInit ==
    /\ state = "Created"
    /\ stopping = FALSE
    /\ fpc = "idle"
    /\ fwait = FALSE
    /\ fnext = 1
    /\ nFlush = 0
    /\ nSamples = 0
    /\ inbound = [s \in Shards |-> <<>>]
    /\ window = [s \in Shards |-> <<>>]
    /\ shardPc = [s \in Shards |-> "recv"]
    /\ pending = [s \in Shards |-> <<>>]
    /\ flushedOut = [s \in Shards |-> <<>>]
    /\ sink = [s \in Shards |-> NewSink]
    /\ blockChan = [s \in Shards |-> "nil"]
    /\ sendPc = [s \in Shards |-> "off"]
    /\ sendErr = [s \in Shards |-> FALSE]
    /\ sent = [s \in Shards |-> 0]
    /\ flushCount = [s \in Shards |-> 0]
    /\ enqSince = [s \in Shards |-> 0]
    /\ expected = [s \in Shards |-> 0]

\* A demultiplexer that can be run again after Stop.
StopRestartable == "Created"

\* The lifecycle state Stop leaves the demultiplexer in.
StateAfterStop == "Stopped"

\* Run: Created -> Running.
Run ==
    /\ state = "Created"
    /\ state' = "Running"
    /\ UNCHANGED <<stopping, callerVars, shardVars, sinkVars>>
    /\ UNCHANGED nonDemuxVars

\* The teardown of Stop: the routines are gone and the channels, windows and
\* sinks are released.
Teardown ==
    /\ inbound' = [s \in Shards |-> <<>>]
    /\ window' = [s \in Shards |-> <<>>]
    /\ shardPc' = [s \in Shards |-> "recv"]
    /\ pending' = [s \in Shards |-> <<>>]
    /\ flushedOut' = [s \in Shards |-> <<>>]
    /\ enqSince' = [s \in Shards |-> 0]
    /\ expected' = [s \in Shards |-> 0]
    /\ sink' = [s \in Shards |-> NewSink]
    /\ blockChan' = [s \in Shards |-> "nil"]
    /\ sendPc' = [s \in Shards |-> "off"]
    /\ sendErr' = [s \in Shards |-> FALSE]
    /\ sent' = [s \in Shards |-> 0]
    /\ flushCount' = [s \in Shards |-> 0]
    /\ UNCHANGED nSamples

\* No flush call is in progress.
CallerFree == fpc \in {"idle", "returned"} /\ ~stopping

\* Stop(false): tears down without a final flush.
StopNoFlush ==
    /\ state = "Running"
    /\ CallerFree
    /\ state' = StateAfterStop
    /\ Teardown
    /\ fpc' = "idle"
    /\ UNCHANGED <<stopping, fwait, fnext, nFlush>>
    /\ UNCHANGED nonDemuxVars

\* The start of a flush: one sink and one send routine per shard, then the
\* triggers are dispatched shard by shard.
StartFlush(wait) ==
    /\ FlushQuiescent
    /\ nFlush < MaxFlushes
    /\ fpc' = "dispatch"
    /\ fwait' = wait
    /\ fnext' = 1
    /\ nFlush' = nFlush + 1
    /\ sink' = [s \in Shards |-> NewSink]
    /\ blockChan' = [s \in Shards |-> IF wait THEN "empty" ELSE "nil"]
    /\ sendPc' = [s \in Shards |-> "sending"]
    /\ sendErr' = [s \in Shards |-> FALSE]
    /\ sent' = [s \in Shards |-> 0]
    /\ flushCount' = [s \in Shards |-> 0]
    /\ UNCHANGED shardVars

\* ForceFlushToSerializer(start, waitForSerializer).
ForceFlushToSerializer ==
    /\ state = "Running"
    /\ CallerFree
    /\ \E wait \in BOOLEAN : StartFlush(wait)
    /\ UNCHANGED lifecycleVars
    /\ UNCHANGED nonDemuxVars

\* Stop(true): one final forced flush, waited for, before the teardown.
StopWithFlush ==
    /\ state = "Running"
    /\ CallerFree
    /\ StartFlush(TRUE)
    /\ stopping' = TRUE
    /\ UNCHANGED state
    /\ UNCHANGED nonDemuxVars

\* A trigger that overtakes what is already in the channel.
TriggerJumpsQueue(q) == <<TriggerMsg>> \o q

\* The inbound channel after the trigger is sent on it.
WithTrigger(q) == Append(q, TriggerMsg)

\* The caller sends the flushTrigger of the next shard on its channel.
DispatchTrigger ==
    /\ state = "Running"
    /\ fpc = "dispatch"
    /\ Len(inbound[fnext]) < ChannelSize
    /\ inbound' = [inbound EXCEPT ![fnext] = WithTrigger(@)]
    /\ expected' = [expected EXCEPT ![fnext] = enqSince[fnext]]
    /\ enqSince' = [enqSince EXCEPT ![fnext] = 0]
    /\ fnext' = fnext + 1
    /\ fpc' = IF fnext < NumShards THEN "dispatch"
              ELSE IF fwait THEN "wait" ELSE "returned"
    /\ UNCHANGED <<fwait, nFlush, window, shardPc, pending, flushedOut, nSamples>>
    /\ UNCHANGED <<lifecycleVars, sinkVars>>
    /\ UNCHANGED nonDemuxVars

\* What a waiting caller blocks on: every shard's blockChan message and
\* every send routine having returned.
SerializerDone ==
    \A s \in Shards : blockChan[s] = "sent" /\ sendPc[s] = "done"

\* waitForSerializer = true: the caller unblocks.
WaitForSerializer ==
    /\ state = "Running"
    /\ fpc = "wait"
    /\ SerializerDone
    /\ fpc' = "returned"
    /\ UNCHANGED <<fwait, fnext, nFlush>>
    /\ UNCHANGED <<lifecycleVars, shardVars, sinkVars>>
    /\ UNCHANGED nonDemuxVars

\* Stop(true) after its final flush: Running -> Stopped.
StopFinish ==
    /\ state = "Running"
    /\ fpc = "returned"
    /\ stopping
    /\ state' = StateAfterStop
    /\ stopping' = FALSE
    /\ fpc' = "idle"
    /\ Teardown
    /\ UNCHANGED <<fwait, fnext, nFlush>>
    /\ UNCHANGED nonDemuxVars

\* A producer sends a batch of k samples to shard s; it blocks while the
\* shard's inbound channel is full.
Enqueue(s, k) ==
    /\ state = "Running"
    /\ nSamples + k <= MaxSamples
    /\ Len(inbound[s]) < ChannelSize
    /\ inbound' = [inbound EXCEPT ![s] = Append(@, BatchMsg(k, trigEpoch(s)))]
    /\ enqSince' = [enqSince EXCEPT ![s] = @ + k]
    /\ nSamples' = nSamples + k
    /\ UNCHANGED <<window, shardPc, pending, flushedOut, expected>>
    /\ UNCHANGED <<lifecycleVars, callerVars, sinkVars>>
    /\ UNCHANGED nonDemuxVars

\* AddTimeSample: the sample goes to the first time sampler.
AddTimeSample == Enqueue(FirstShard, 1)

\* AddTimeSampleBatch(shard, samples).
AddTimeSampleBatch == \E s \in Shards, k \in 1..MaxBatch : Enqueue(s, k)

\* The shard takes a batch from its channel into its window.
ShardRecvBatch(s) ==
    /\ state = "Running"
    /\ shardPc[s] = "recv"
    /\ inbound[s] # <<>>
    /\ Head(inbound[s]).kind = "batch"
    /\ window' = [window EXCEPT ![s] = @ \o Repeat(Head(inbound[s]).tag, Head(inbound[s]).n)]
    /\ inbound' = [inbound EXCEPT ![s] = Tail(@)]
    /\ UNCHANGED <<shardPc, pending, flushedOut, nSamples, enqSince, expected>>
    /\ UNCHANGED <<lifecycleVars, callerVars, sinkVars>>
    /\ UNCHANGED nonDemuxVars

\* The shard takes a flushTrigger: snapshot and reset of the window.
ShardRecvTrigger(s) ==
    /\ state = "Running"
    /\ shardPc[s] = "recv"
    /\ inbound[s] # <<>>
    /\ Head(inbound[s]).kind = "flush"
    /\ pending' = [pending EXCEPT ![s] = window[s]]
    /\ flushedOut' = [flushedOut EXCEPT ![s] = window[s]]
    /\ window' = [window EXCEPT ![s] = <<>>]
    /\ shardPc' = [shardPc EXCEPT ![s] = "flush"]
    /\ inbound' = [inbound EXCEPT ![s] = Tail(@)]
    /\ UNCHANGED <<nSamples, enqSince, expected>>
    /\ UNCHANGED <<lifecycleVars, callerVars, sinkVars>>
    /\ UNCHANGED nonDemuxVars

\* The shard appends the next series to the sink; it blocks while the sink's
\* buffer is full.
ShardAppend(s) ==
    /\ state = "Running"
    /\ shardPc[s] = "flush"
    /\ pending[s] # <<>>
    /\ Len(sink[s].buf) < BufferSize
    /\ sink' = [sink EXCEPT ![s].buf = Append(@, Head(pending[s])),
                            ![s].count = @ + 1]
    /\ pending' = [pending EXCEPT ![s] = Tail(@)]
    /\ UNCHANGED <<inbound, window, shardPc, flushedOut, nSamples, enqSince, expected>>
    /\ UNCHANGED <<blockChan, sendPc, sendErr, sent, flushCount>>
    /\ UNCHANGED <<lifecycleVars, callerVars>>
    /\ UNCHANGED nonDemuxVars

\* Iteration complete: SenderStopped on the sink, then the message on the
\* trigger's blockChan if there is one.
ShardSenderStopped(s) ==
    /\ state = "Running"
    /\ shardPc[s] = "flush"
    /\ pending[s] = <<>>
    /\ sink' = [sink EXCEPT ![s].closed = TRUE]
    /\ blockChan' = [blockChan EXCEPT ![s] = IF @ = "nil" THEN "nil" ELSE "sent"]
    /\ shardPc' = [shardPc EXCEPT ![s] = "recv"]
    /\ UNCHANGED <<inbound, window, pending, flushedOut, nSamples, enqSince, expected>>
    /\ UNCHANGED <<sendPc, sendErr, sent, flushCount>>
    /\ UNCHANGED <<lifecycleVars, callerVars>>
    /\ UNCHANGED nonDemuxVars

\* serializer.SendIterableSeries consumes one series from the source.
SendConsume(s) ==
    /\ state = "Running"
    /\ sendPc[s] = "sending"
    /\ sink[s].buf # <<>>
    /\ sink' = [sink EXCEPT ![s].buf = Tail(@)]
    /\ sent' = [sent EXCEPT ![s] = @ + 1]
    /\ UNCHANGED <<blockChan, sendPc, sendErr, flushCount>>
    /\ UNCHANGED <<lifecycleVars, callerVars, shardVars>>
    /\ UNCHANGED nonDemuxVars

\* A SendIterableSeries that returns nil without waiting for SenderStopped.
ReturnsNilEarly(s) == sink[s].buf = <<>>

\* When SendIterableSeries returns nil: SenderStopped was called on the sink
\* and every series was consumed.
CanReturnNil(s) == sink[s].buf = <<>> /\ sink[s].closed

\* SendIterableSeries has returned.  Once SenderStopped was called the
\* count of the source no longer changes, and the rest of the routine (the
\* read of Count, the telemetry, the return) is taken in the same step;
\* otherwise the read of Count is a later step, SendCount.
AfterSend(s) ==
    IF sink[s].closed
    THEN /\ sendPc' = [sendPc EXCEPT ![s] = "done"]
         /\ flushCount' = [flushCount EXCEPT ![s] = sink[s].count]
    ELSE /\ sendPc' = [sendPc EXCEPT ![s] = "count"]
         /\ UNCHANGED flushCount

\* err == nil.
SendReturnNil(s) ==
    /\ state = "Running"
    /\ sendPc[s] = "sending"
    /\ CanReturnNil(s)
    /\ AfterSend(s)
    /\ sendErr' = [sendErr EXCEPT ![s] = FALSE]
    /\ UNCHANGED <<sink, blockChan, sent>>
    /\ UNCHANGED <<lifecycleVars, callerVars, shardVars>>
    /\ UNCHANGED nonDemuxVars

\* err != nil: the serializer may give up at any point, SenderStopped
\* called or not.
SendReturnErr(s) ==
    /\ state = "Running"
    /\ sendPc[s] = "sending"
    /\ s \in FailingShards
    /\ AfterSend(s)
    /\ sendErr' = [sendErr EXCEPT ![s] = TRUE]
    /\ UNCHANGED <<sink, blockChan, sent>>
    /\ UNCHANGED <<lifecycleVars, callerVars, shardVars>>
    /\ UNCHANGED nonDemuxVars

\* count := serieSource.Count(); addFlushCount; updateSerieTelemetry; return.
SendCount(s) ==
    /\ state = "Running"
    /\ sendPc[s] = "count"
    /\ flushCount' = [flushCount EXCEPT ![s] = sink[s].count]
    /\ sendPc' = [sendPc EXCEPT ![s] = "done"]
    /\ UNCHANGED <<sink, blockChan, sendErr, sent>>
    /\ UNCHANGED <<lifecycleVars, callerVars, shardVars>>
    /\ UNCHANGED nonDemuxVars

DemuxNext ==
    \/ Run
    \/ StopNoFlush
    \/ StopWithFlush
    \/ StopFinish
    \/ ForceFlushToSerializer
    \/ DispatchTrigger
    \/ WaitForSerializer
    \/ AddTimeSample
    \/ AddTimeSampleBatch
    \/ \E s \in Shards :
         \/ ShardRecvBatch(s)
         \/ ShardRecvTrigger(s)
         \/ ShardAppend(s)
         \/ ShardSenderStopped(s)
         \/ SendConsume(s)
         \/ SendReturnNil(s)
         \/ SendReturnErr(s)
         \/ SendCount(s)

----------------------------------------------------------------------------
(* Windows container provider (provider.go).  Routines call Prefetch, the  *)
(* per-container accessors and GetAgentCID concurrently.  The containers   *)
(* of a listing of length n are named 1..n.  A batch worker of Prefetch    *)
(* takes its whole batch in one step: it shares nothing with the other     *)
(* workers but the local map, written under the local lock, and agentCID.  *)

NumRoutines == 2
MaxListing == 1
BatchedListing == 16
MaxProvCalls == 3
MaxBatchCalls == 1

\* chunkSize := len(rawContainers) / 8
BatchDivisor == 8

Routines == 1..NumRoutines
NoRoutine == 0
\* The lengths of the listings docker may return: short ones, taken in one
\* batch, and one that is cut in batches.
ShortListings == {0, MaxListing}
ListingLengths == ShortListings \cup {BatchedListing}
NoListing == 0 - 1
\* The container whose process is the agent (or its parent), when listed.
\* It is also the one container docker may fail on and the one the accessors
\* are asked about: it is listed or not, inspected or not, measured or not.
AgentContainer == 1
ProbeIDs == {AgentContainer}

\* What docker fails on during one Prefetch: Inspect and / or
\* GetContainerStats of container id (id 0: no failure).
NoFault == [id |-> 0, inspect |-> FALSE, stats |-> FALSE]
Faults ==
    {NoFault} \cup
    {f \in [id : {AgentContainer}, inspect : BOOLEAN, stats : BOOLEAN] :
        f.inspect \/ f.stats}

EmptyMap == [i \in {} |-> 0]
NoSnapshot == [n |-> NoListing, fault |-> NoFault]

NoCall == [op |-> "none", id |-> 0]
NoResult == [err |-> "none", val |-> "none", cid |-> 0]
\* mp.agentCID == nil
NoCID == 0

Accessors == {"ContainerExists", "GetContainerStartTime", "GetContainerMetrics",
              "GetContainerLimits", "GetNetworkMetrics"}

ProviderInit ==
    /\ containers = EmptyMap
    /\ agentCID = NoCID
    /\ prefetchLock = NoRoutine
    /\ containersLock = [writer |-> NoRoutine, readers |-> {}]
    /\ rpc = [r \in Routines |-> "idle"]
    /\ rop = [r \in Routines |-> NoCall]
    /\ rres = [r \in Routines |-> NoResult]
    /\ rawContainers = [r \in Routines |-> NoListing]
    /\ localMap = [r \in Routines |-> EmptyMap]
    /\ batchesDone = [r \in Routines |-> {}]
    /\ fault = [r \in Routines |-> NoFault]
    /\ nProvCalls = 0
    /\ published = NoSnapshot
    /\ lastPrefetch = "none"

\* chunkSize: a eighth of the listing, the whole listing if that is <= 1.
chunkSize(n) == IF GoDiv(n, BatchDivisor) <= 1 THEN n ELSE GoDiv(n, BatchDivisor)

\* The start indexes of the loop: for i := 0; i < n; i += chunkSize.
RECURSIVE BatchLoop(_, _, _)
BatchLoop(i, n, c) == IF i < n THEN {i} \cup BatchLoop(i + c, n, c) ELSE {}

BatchStarts(n) == BatchLoop(0, n, chunkSize(n))

\* A worker that does not cap the end of its batch.
BatchOfUncapped(start, n) == (start + 1)..(start + chunkSize(n))

\* The containers of rawContainers[start:end], end capped by the length.
BatchOf(start, n) ==
    LET end == IF start + chunkSize(n) > n THEN n ELSE start + chunkSize(n)
    IN  (start + 1)..end

\* The containerBundle a worker stores for container id under fault f:
\* fillContainerDetails after a successful Inspect, fillContainerMetrics and
\* fillContainerNetworkMetrics after a successful GetContainerStats.
BundleOf(id, f) ==
    LET inspected == ~(f.id = id /\ f.inspect)
        measured == ~(f.id = id /\ f.stats)
    IN  [metrics |-> IF measured THEN "set" ELSE "nil",
         networkMetrics |-> IF measured THEN "set" ELSE "nil",
         limits |-> IF inspected THEN "set" ELSE "nil",
         startTime |-> IF inspected THEN "parsed" ELSE "zero"]

\* A worker that leaves its batch at the first container docker fails on.
StoredUntilFault(ids, f) ==
    IF f.id \in ids THEN {i \in ids : i < f.id} ELSE ids

\* The containers of a batch the worker stores in the local map: all of them.
StoredOf(ids, f) == ids

\* A routine starts a call on the provider.
ProviderCall(r, maxCalls) ==
    /\ rpc[r] = "idle"
    /\ nProvCalls < maxCalls
    /\ \/ /\ rop' = [rop EXCEPT ![r] = [op |-> "Prefetch", id |-> 0]]
          /\ rpc' = [rpc EXCEPT ![r] = "pfLock"]
       \/ /\ \E i \in ProbeIDs :
                rop' = [rop EXCEPT ![r] = [op |-> "accessor", id |-> i]]
          /\ rpc' = [rpc EXCEPT ![r] = "rlock"]
       \/ /\ rop' = [rop EXCEPT ![r] = [op |-> "GetAgentCID", id |-> 0]]
          /\ rpc' = [rpc EXCEPT ![r] = "cidCheck"]
    /\ rres' = [rres EXCEPT ![r] = NoResult]
    /\ nProvCalls' = nProvCalls + 1
    /\ UNCHANGED <<locksVars, prefetchVars, snapshotVars>>
    /\ UNCHANGED nonProviderVars

\* A Prefetch that goes on without waiting for prefetchLock.
PrefetchLockBarges(r) ==
    /\ rpc[r] = "pfLock"
    /\ prefetchLock' = r
    /\ rpc' = [rpc EXCEPT ![r] = "pfList"]
    /\ UNCHANGED <<containersLock, rop, rres, nProvCalls>>
    /\ UNCHANGED <<prefetchVars, snapshotVars>>
    /\ UNCHANGED nonProviderVars

\* mp.prefetchLock.Lock()
PrefetchLock(r) ==
    /\ rpc[r] = "pfLock"
    /\ prefetchLock = NoRoutine
    /\ prefetchLock' = r
    /\ rpc' = [rpc EXCEPT ![r] = "pfList"]
    /\ UNCHANGED <<containersLock, rop, rres, nProvCalls>>
    /\ UNCHANGED <<prefetchVars, snapshotVars>>
    /\ UNCHANGED nonProviderVars

\* Where a routine goes on when its Prefetch returns.
AfterPrefetch(r) == IF rop[r].op = "GetAgentCID" THEN "cidRead" ELSE "ret"

\* The locals of a Prefetch are gone when it returns.
PrefetchLocalsGone(r) ==
    /\ rawContainers' = [rawContainers EXCEPT ![r] = NoListing]
    /\ localMap' = [localMap EXCEPT ![r] = EmptyMap]
    /\ batchesDone' = [batchesDone EXCEPT ![r] = {}]
    /\ fault' = [fault EXCEPT ![r] = NoFault]

\* GetDockerUtil or RawContainerList fails: return err (prefetchLock is
\* released by the deferred Unlock); mp.containers is not touched.
PrefetchFail(r) ==
    /\ rpc[r] = "pfList"
    /\ prefetchLock' = NoRoutine
    /\ lastPrefetch' = "failed"
    /\ rres' = [rres EXCEPT ![r] =
                  IF rop[r].op = "Prefetch" THEN [err |-> "error", val |-> "none", cid |-> 0] ELSE @]
    /\ rpc' = [rpc EXCEPT ![r] = AfterPrefetch(r)]
    /\ UNCHANGED <<containersLock, rop, nProvCalls>>
    /\ UNCHANGED <<prefetchVars, containers, agentCID, published>>
    /\ UNCHANGED nonProviderVars

\* RawContainerList succeeds; the local map is made and one worker per
\* batch is spawned.
PrefetchList(r, lengths) ==
    /\ rpc[r] = "pfList"
    /\ \E n \in lengths : rawContainers' = [rawContainers EXCEPT ![r] = n]
    /\ fault' = [fault EXCEPT ![r] = NoFault]
    /\ localMap' = [localMap EXCEPT ![r] = EmptyMap]
    /\ batchesDone' = [batchesDone EXCEPT ![r] = {}]
    /\ rpc' = [rpc EXCEPT ![r] = "pfWork"]
    /\ UNCHANGED <<locksVars, rop, rres, nProvCalls, snapshotVars>>
    /\ UNCHANGED nonProviderVars

\* The value *mp.agentCID has once the worker of a batch holding the agent's
\* container is through: &container.ID is the address of the range variable,
\* which is the matching container's own copy or the variable shared by the
\* whole loop (then left at the last container), as the Go version has it.
AgentCIDValues(ids) ==
    {AgentContainer} \cup {i \in ids : \A j \in ids : j <= i}

\* The worker of the batch starting at index b inspects its containers,
\* docker failing or not on one of them, and stores their bundles in the
\* local map.
BatchWorker(r, b) ==
    /\ rpc[r] = "pfWork"
    /\ b \in BatchStarts(rawContainers[r]) \ batchesDone[r]
    /\ LET ids == BatchOf(b, rawContainers[r])
       IN  \E f \in {g \in Faults : g = NoFault \/ g.id \in ids} :
             LET kept == StoredOf(ids, f)
             IN  /\ localMap' = [localMap EXCEPT ![r] =
                        [i \in DOMAIN @ \cup kept |->
                            IF i \in kept THEN BundleOf(i, f) ELSE @[i]]]
                 /\ fault' = [fault EXCEPT ![r] = IF f = NoFault THEN @ ELSE f]
                 /\ IF AgentContainer \in ids /\ ~f.inspect
                    THEN \E v \in AgentCIDValues(ids) : agentCID' = v
                    ELSE UNCHANGED agentCID
    /\ batchesDone' = [batchesDone EXCEPT ![r] = @ \cup {b}]
    /\ UNCHANGED <<locksVars, routineVars, rawContainers>>
    /\ UNCHANGED <<containers, published, lastPrefetch>>
    /\ UNCHANGED nonProviderVars

\* A Prefetch that does not wait for its workers.
WaitSkipped(r) == TRUE

\* wg.Wait(): every batch worker has called wg.Done().
WorkersDone(r) == batchesDone[r] = BatchStarts(rawContainers[r])

\* wg.Wait() returns; mp.containersLock.Lock().
PrefetchSwapLock(r) ==
    /\ rpc[r] = "pfWork"
    /\ WorkersDone(r)
    /\ containersLock.writer = NoRoutine
    /\ containersLock.readers = {}
    /\ containersLock' = [containersLock EXCEPT !.writer = r]
    /\ rpc' = [rpc EXCEPT ![r] = "pfSwap"]
    /\ UNCHANGED <<prefetchLock, rop, rres, nProvCalls>>
    /\ UNCHANGED <<prefetchVars, snapshotVars>>
    /\ UNCHANGED nonProviderVars

\* A Prefetch that returns with mp.containersLock still held.
KeepContainersLock(r) == containersLock

\* mp.containersLock after the deferred Unlock of Prefetch.
ReleaseContainersLock(r) == [containersLock EXCEPT !.writer = NoRoutine]

\* mp.containers = containers; return nil (both locks are released by the
\* deferred Unlocks).
PrefetchSwap(r) ==
    /\ rpc[r] = "pfSwap"
    /\ containers' = localMap[r]
    /\ published' = [n |-> rawContainers[r], fault |-> fault[r]]
    /\ lastPrefetch' = "ok"
    /\ containersLock' = ReleaseContainersLock(r)
    /\ prefetchLock' = NoRoutine
    /\ rres' = [rres EXCEPT ![r] =
                  IF rop[r].op = "Prefetch" THEN [err |-> "nil", val |-> "none", cid |-> 0] ELSE @]
    /\ rpc' = [rpc EXCEPT ![r] = AfterPrefetch(r)]
    /\ PrefetchLocalsGone(r)
    /\ UNCHANGED <<rop, nProvCalls, agentCID>>
    /\ UNCHANGED nonProviderVars

\* An accessor that waits for the Prefetch in progress as well.
AccessorWaitsPrefetch(r) ==
    /\ rpc[r] = "rlock"
    /\ prefetchLock = NoRoutine
    /\ containersLock.writer = NoRoutine
    /\ containersLock' = [containersLock EXCEPT !.readers = @ \cup {r}]
    /\ rpc' = [rpc EXCEPT ![r] = "read"]
    /\ UNCHANGED <<prefetchLock, rop, rres, nProvCalls>>
    /\ UNCHANGED <<prefetchVars, snapshotVars>>
    /\ UNCHANGED nonProviderVars

\* mp.containersLock.RLock()
AccessorRLock(r) ==
    /\ rpc[r] = "rlock"
    /\ containersLock.writer = NoRoutine
    /\ containersLock' = [containersLock EXCEPT !.readers = @ \cup {r}]
    /\ rpc' = [rpc EXCEPT ![r] = "read"]
    /\ UNCHANGED <<prefetchLock, rop, rres, nProvCalls>>
    /\ UNCHANGED <<prefetchVars, snapshotVars>>
    /\ UNCHANGED nonProviderVars

\* An accessor that does not look at `exists`.
ExistsUnchecked(snap, id) == TRUE

\* _, exists := mp.containers[containerID]
Exists(snap, id) == id \in DOMAIN snap

\* containerBundle, _ := mp.containers[containerID] (the zero value on a miss)
Lookup(snap, id) ==
    IF id \in DOMAIN snap
    THEN snap[id]
    ELSE [metrics |-> "nil", networkMetrics |-> "nil", limits |-> "nil",
          startTime |-> "zero"]

\* What the accessor a returns for id on the snapshot snap.
AccessorResult(a, snap, id) ==
    IF a = "ContainerExists"
    THEN [err |-> "nil", val |-> IF Exists(snap, id) THEN "true" ELSE "false"]
    ELSE IF ~Exists(snap, id)
    THEN [err |-> "container not found",
          val |-> IF a = "GetContainerStartTime" THEN "zero" ELSE "nil"]
    ELSE [err |-> "nil",
          val |-> CASE a = "GetContainerStartTime" -> Lookup(snap, id).startTime
                    [] a = "GetContainerMetrics" -> Lookup(snap, id).metrics
                    [] a = "GetContainerLimits" -> Lookup(snap, id).limits
                    [] OTHER ->
                         IF Lookup(snap, id).networkMetrics = "nil"
                         THEN "empty" ELSE "stats"]

\* The body of the accessor and its deferred RUnlock.  The five accessors
\* take the lock in the same way; which of them the routine runs shows in
\* its body only.
AccessorRead(r) ==
    /\ rpc[r] = "read"
    /\ \E a \in Accessors :
         LET res == AccessorResult(a, containers, rop[r].id)
         IN  /\ rres' = [rres EXCEPT ![r] =
                          [err |-> res.err, val |-> res.val, cid |-> 0]]
             /\ rop' = [rop EXCEPT ![r].op = a]
    /\ containersLock' = [containersLock EXCEPT !.readers = @ \ {r}]
    /\ rpc' = [rpc EXCEPT ![r] = "ret"]
    /\ UNCHANGED <<prefetchLock, nProvCalls>>
    /\ UNCHANGED <<prefetchVars, snapshotVars>>
    /\ UNCHANGED nonProviderVars

\* GetAgentCID, first read: mp.agentCID == nil forces a Prefetch.
CidCheck(r) ==
    /\ rpc[r] = "cidCheck"
    /\ rpc' = [rpc EXCEPT ![r] = IF agentCID = NoCID THEN "pfLock" ELSE "cidRead"]
    /\ UNCHANGED <<locksVars, rop, rres, nProvCalls>>
    /\ UNCHANGED <<prefetchVars, snapshotVars>>
    /\ UNCHANGED nonProviderVars

\* GetAgentCID, second read: "" if it is still nil, else *mp.agentCID.
CidRead(r) ==
    /\ rpc[r] = "cidRead"
    /\ rres' = [rres EXCEPT ![r] =
                  [err |-> "nil", val |-> IF agentCID = NoCID THEN "" ELSE "id",
                   cid |-> agentCID]]
    /\ rpc' = [rpc EXCEPT ![r] = "ret"]
    /\ UNCHANGED <<locksVars, rop, nProvCalls>>
    /\ UNCHANGED <<prefetchVars, snapshotVars>>
    /\ UNCHANGED nonProviderVars

\* The call has returned; the routine is free for its next call.
ProviderReturn(r) ==
    /\ rpc[r] = "ret"
    /\ rpc' = [rpc EXCEPT ![r] = "idle"]
    /\ rop' = [rop EXCEPT ![r] = NoCall]
    /\ rres' = [rres EXCEPT ![r] = NoResult]
    /\ UNCHANGED <<locksVars, nProvCalls, prefetchVars, snapshotVars>>
    /\ UNCHANGED nonProviderVars

\* The steps of the calls in progress, short of their return.
ProviderStep ==
    \E r \in Routines :
        \/ PrefetchLock(r)
        \/ PrefetchFail(r)
        \/ PrefetchList(r, ShortListings)
        \/ \E b \in 0..BatchedListing : BatchWorker(r, b)
        \/ PrefetchSwapLock(r)
        \/ PrefetchSwap(r)
        \/ AccessorRLock(r)
        \/ AccessorRead(r)
        \/ CidCheck(r)
        \/ CidRead(r)

\* Routines calling the provider concurrently; docker returns short listings.
ProviderNext ==
    \E r \in Routines :
        \/ ProviderCall(r, MaxProvCalls)
        \/ PrefetchLock(r)
        \/ PrefetchFail(r)
        \/ PrefetchList(r, ShortListings)
        \/ \E b \in 0..BatchedListing : BatchWorker(r, b)
        \/ PrefetchSwapLock(r)
        \/ PrefetchSwap(r)
        \/ AccessorRLock(r)
        \/ AccessorRead(r)
        \/ CidCheck(r)
        \/ CidRead(r)
        \/ ProviderReturn(r)

\* The routine of the specification with one caller.
Refresher == 1

\* One routine calling the provider; docker returns listings of any length,
\* and the batch workers of a Prefetch run concurrently.
BatchesNext ==
    \/ ProviderCall(Refresher, MaxBatchCalls)
    \/ PrefetchLock(Refresher)
    \/ PrefetchFail(Refresher)
    \/ PrefetchList(Refresher, ListingLengths)
    \/ \E b \in 0..BatchedListing : BatchWorker(Refresher, b)
    \/ PrefetchSwapLock(Refresher)
    \/ PrefetchSwap(Refresher)
    \/ AccessorRLock(Refresher)
    \/ AccessorRead(Refresher)
    \/ CidCheck(Refresher)
    \/ CidRead(Refresher)
    \/ ProviderReturn(Refresher)

----------------------------------------------------------------------------
(* The batching loop of Prefetch (provider.go:91-135), one iteration a     *)
(* step, for listings of every length up to MaxLoopLen.                    *)

MaxLoopLen == 24

LoopLengths == 0..MaxLoopLen

LoopInit ==
    /\ loopPc = "idle"
    /\ loopLen = 0
    /\ loopI = 0
    /\ loopBatches = {}

\* RawContainerList returns a listing; chunkSize is computed and i := 0.
LoopStart ==
    /\ loopPc = "idle"
    /\ \E n \in LoopLengths : loopLen' = n
    /\ loopI' = 0
    /\ loopBatches' = {}
    /\ loopPc' = "loop"
    /\ UNCHANGED nonLoopVars

\* i < len(rawContainers): wg.Add(1); go func(wg, i); i += chunkSize.
LoopSpawn ==
    /\ loopPc = "loop"
    /\ loopI < loopLen
    /\ loopBatches' = loopBatches \cup {loopI}
    /\ loopI' = loopI + chunkSize(loopLen)
    /\ UNCHANGED <<loopPc, loopLen>>
    /\ UNCHANGED nonLoopVars

\* i >= len(rawContainers): the loop is left for wg.Wait().
LoopExit ==
    /\ loopPc = "loop"
    /\ ~(loopI < loopLen)
    /\ loopPc' = "wait"
    /\ UNCHANGED <<loopLen, loopI, loopBatches>>
    /\ UNCHANGED nonLoopVars

\* Prefetch returns; its locals are gone.
LoopReturn ==
    /\ loopPc = "wait"
    /\ loopPc' = "idle"
    /\ loopLen' = 0
    /\ loopI' = 0
    /\ loopBatches' = {}
    /\ UNCHANGED nonLoopVars

LoopNext ==
    \/ LoopStart
    \/ LoopSpawn
    \/ LoopExit
    \/ LoopReturn

----------------------------------------------------------------------------
(* PodCheck, the stub of the build without kubelet or orchestrator.        *)

NumConfigs == 2
NumInfos == 2
MaxGroupID == 2
MaxPodCalls == 5

Configs == 1..NumConfigs
NoInfo == 0
Infos == NoInfo..NumInfos
GroupIDs == 0..MaxGroupID

NoPodCall == [op |-> "none", cfg |-> 0, arg |-> 0, msgs |-> "none", err |-> "none"]

PodInit ==
    /\ sysInfo = NoInfo
    /\ podLast = NoPodCall
    /\ nPodCalls = 0

\* Init(cfg, info): c.sysInfo = info.
PodCheckInit ==
    /\ nPodCalls < MaxPodCalls
    /\ \E cfg \in Configs, info \in Infos :
         /\ sysInfo' = info
         /\ podLast' = [op |-> "Init", cfg |-> cfg, arg |-> info,
                        msgs |-> "none", err |-> "none"]
    /\ nPodCalls' = nPodCalls + 1
    /\ UNCHANGED nonPodVars

\* A Run that reports success for the group id 0.
RunSucceedsForGroupZero(cfg, groupID) ==
    [msgs |-> "nil", err |-> IF groupID = 0 THEN "nil" ELSE "Not implemented"]

\* What Run(cfg, groupID) returns.
PodRunResult(cfg, groupID) == [msgs |-> "nil", err |-> "Not implemented"]

\* Run(cfg, groupID).
PodCheckRun ==
    /\ nPodCalls < MaxPodCalls
    /\ \E cfg \in Configs, g \in GroupIDs :
         podLast' = [op |-> "Run", cfg |-> cfg, arg |-> g,
                     msgs |-> PodRunResult(cfg, g).msgs,
                     err |-> PodRunResult(cfg, g).err]
    /\ nPodCalls' = nPodCalls + 1
    /\ UNCHANGED sysInfo
    /\ UNCHANGED nonPodVars

\* Cleanup(): nothing to free.
PodCheckCleanup ==
    /\ nPodCalls < MaxPodCalls
    /\ podLast' = [op |-> "Cleanup", cfg |-> 0, arg |-> 0,
                   msgs |-> "none", err |-> "none"]
    /\ nPodCalls' = nPodCalls + 1
    /\ UNCHANGED sysInfo
    /\ UNCHANGED nonPodVars

PodNext ==
    \/ PodCheckInit
    \/ PodCheckRun
    \/ PodCheckCleanup

----------------------------------------------------------------------------
(* Log schedulers, as TestSchedulers drives them: schedulers are           *)
(* registered, then Schedulers.Start and then Schedulers.Stop are called;  *)
(* each calls the method of the same name on every registered scheduler.   *)

NumScheds == 3

Scheds == 1..NumScheds

Registered == {schedulers[k] : k \in 1..Len(schedulers)}

SchedInit ==
    /\ schedulers = <<>>
    /\ started = [s \in Scheds |-> FALSE]
    /\ stopped = [s \in Scheds |-> FALSE]
    /\ schPc = "add"
    /\ schIdx = 1

\* ss.AddScheduler(sch), before Start.
AddScheduler ==
    /\ schPc = "add"
    /\ \E s \in Scheds \ Registered : schedulers' = Append(schedulers, s)
    /\ UNCHANGED <<started, stopped, schPc, schIdx>>
    /\ UNCHANGED nonSchedVars

\* ss.Start(sources, services) is called.
SchedulersStart ==
    /\ schPc = "add"
    /\ schPc' = "start"
    /\ schIdx' = 1
    /\ UNCHANGED <<schedulers, started, stopped>>
    /\ UNCHANGED nonSchedVars

\* A testSched.Start that also sets stopped.
StartAlsoStops(flags) == [started |-> TRUE, stopped |-> TRUE]

\* testSched.Start: t.started = true.
testSchedStart(flags) == [flags EXCEPT !.started = TRUE]

\* testSched.Stop: t.stopped = true.
testSchedStop(flags) == [flags EXCEPT !.stopped = TRUE]

FlagsOf(s) == [started |-> started[s], stopped |-> stopped[s]]

\* Start calls Start on the next registered scheduler.
StartOne ==
    /\ schPc = "start"
    /\ schIdx <= Len(schedulers)
    /\ LET s == schedulers[schIdx]
       IN  /\ started' = [started EXCEPT ![s] = testSchedStart(FlagsOf(s)).started]
           /\ stopped' = [stopped EXCEPT ![s] = testSchedStart(FlagsOf(s)).stopped]
    /\ schIdx' = schIdx + 1
    /\ UNCHANGED <<schedulers, schPc>>
    /\ UNCHANGED nonSchedVars

\* Start returns.
StartReturn ==
    /\ schPc = "start"
    /\ schIdx > Len(schedulers)
    /\ schPc' = "run"
    /\ UNCHANGED <<schedulers, started, stopped, schIdx>>
    /\ UNCHANGED nonSchedVars

\* ss.Stop() is called.
SchedulersStop ==
    /\ schPc = "run"
    /\ schPc' = "stop"
    /\ schIdx' = 1
    /\ UNCHANGED <<schedulers, started, stopped>>
    /\ UNCHANGED nonSchedVars

\* Stop calls Stop on the next registered scheduler.
StopOne ==
    /\ schPc = "stop"
    /\ schIdx <= Len(schedulers)
    /\ LET s == schedulers[schIdx]
       IN  /\ started' = [started EXCEPT ![s] = testSchedStop(FlagsOf(s)).started]
           /\ stopped' = [stopped EXCEPT ![s] = testSchedStop(FlagsOf(s)).stopped]
    /\ schIdx' = schIdx + 1
    /\ UNCHANGED <<schedulers, schPc>>
    /\ UNCHANGED nonSchedVars

\* Stop returns.
StopReturn ==
    /\ schPc = "stop"
    /\ schIdx > Len(schedulers)
    /\ schPc' = "end"
    /\ UNCHANGED <<schedulers, started, stopped, schIdx>>
    /\ UNCHANGED nonSchedVars

SchedNext ==
    \/ AddScheduler
    \/ SchedulersStart
    \/ StartOne
    \/ StartReturn
    \/ SchedulersStop
    \/ StopOne
    \/ StopReturn

----------------------------------------------------------------------------
(* Specifications *)

\* The parts a specification does not exercise stay in their initial state.
RestInit ==
    DefaultInit /\ LateInit /\ ProviderInit /\ PodInit /\ SchedInit /\ LoopInit

InitSizer == SizerInit /\ SendersInit /\ DemuxInit /\ RestInit

SpecSizer == InitSizer /\ [][SizerNext]_vars

InitSenders == SizerIdle /\ SendersInit /\ DemuxInit /\ RestInit

SpecSenders == InitSenders /\ [][SendersNext]_vars

InitDemux == SizerIdle /\ SendersInit /\ DemuxInit /\ RestInit

SpecDemux == InitDemux /\ [][DemuxNext]_vars

InitDefault == SizerIdle /\ SendersInit /\ DemuxInit /\ RestInit

SpecDefault == InitDefault /\ [][DefaultNext]_vars

InitLate == SizerIdle /\ SendersInit /\ DemuxInit /\ RestInit

SpecLate == InitLate /\ [][LateNext]_vars

InitProvider == SizerIdle /\ SendersInit /\ DemuxInit /\ RestInit

SpecProvider == InitProvider /\ [][ProviderNext]_vars

InitBatches == SizerIdle /\ SendersInit /\ DemuxInit /\ RestInit

SpecBatches == InitBatches /\ [][BatchesNext]_vars

InitPod == SizerIdle /\ SendersInit /\ DemuxInit /\ RestInit

SpecPod == InitPod /\ [][PodNext]_vars

InitSched == SizerIdle /\ SendersInit /\ DemuxInit /\ RestInit

SpecSched == InitSched /\ [][SchedNext]_vars

InitLoop == SizerIdle /\ SendersInit /\ DemuxInit /\ RestInit

\* The routine running Prefetch is scheduled as long as it has a step to take.
SpecLoop == InitLoop /\ [][LoopNext]_vars /\ WF_vars(LoopNext)

----------------------------------------------------------------------------
(* Claims about the topology sizer *)

\* C6: for every vCPUs >= 1, every configured pipeline count and both values
\* of the auto-adjust flag, the call returns workerCount >= 2 and
\* pipelineCount >= 1.
C6_MinimumCounts ==
    (sizerPc = "done" /\ vCPUs >= 1) =>
        (dsdWorkerCount >= 2 /\ pipelineCount >= 1)

\* A call on one core with a non-positive configured count has returned:
\* both floors applied.
C6_Witness ==
    /\ sizerPc = "done"
    /\ vCPUs = 1
    /\ cfgPipelineCount <= 0
    /\ ~autoAdjust
    /\ dsdWorkerCount = 2
    /\ pipelineCount = 1

\* C7: in manual mode pipelineCount is the configured count if positive and 1
\* otherwise, and workerCount = max(2, vCPUs - 1 - pipelineCount) with the
\* defaulted pipelineCount.
C7_ManualMode ==
    (sizerPc = "done" /\ ~autoAdjust) =>
        /\ pipelineCount = (IF cfgPipelineCount > 0 THEN cfgPipelineCount ELSE 1)
        /\ dsdWorkerCount = Max(2, vCPUs - 1 - pipelineCount)

\* Manual mode, vCPUs = 4, pipeline count 0: defaulted to 1, two workers.
C7_Witness ==
    /\ sizerPc = "done"
    /\ ~autoAdjust
    /\ vCPUs = 4
    /\ cfgPipelineCount = 0
    /\ pipelineCount = 1
    /\ dsdWorkerCount = 2

\* C8: in auto mode workerCount = max(2, vCPUs div 2) and pipelineCount =
\* max(1, workerCount - 1), whatever pipeline count is configured.
C8_AutoMode ==
    (sizerPc = "done" /\ autoAdjust) =>
        /\ dsdWorkerCount = Max(2, GoDiv(vCPUs, 2))
        /\ pipelineCount = Max(1, dsdWorkerCount - 1)

\* Auto mode, vCPUs = 8 with a configured count of 5 that is ignored.
C8_Witness ==
    /\ sizerPc = "done"
    /\ autoAdjust
    /\ vCPUs = 8
    /\ cfgPipelineCount = 5
    /\ dsdWorkerCount = 4
    /\ pipelineCount = 3
    /\ warned

\* C9 (as stated): for every vCPUs >= 1 and every configuration,
\* 1 (listener) + workerCount + pipelineCount <= vCPUs.
C9_BoundedByCores ==
    (sizerPc = "done" /\ vCPUs >= 1) =>
        1 + dsdWorkerCount + pipelineCount <= vCPUs

\* C9 (amended): the routines are bounded by the available cores except where
\* the two-worker minimum applies:
\* 1 + workerCount + pipelineCount <= max(vCPUs, 3 + pipelineCount).
C9_BoundedByCoresOrFloor ==
    (sizerPc = "done" /\ vCPUs >= 1) =>
        1 + dsdWorkerCount + pipelineCount <= Max(vCPUs, 3 + pipelineCount)

\* A call where the bound by the cores is the binding one (more than the
\* minimum of workers) and is met with equality.
C9_Witness ==
    /\ sizerPc = "done"
    /\ vCPUs = 8
    /\ ~autoAdjust
    /\ cfgPipelineCount = 3
    /\ dsdWorkerCount = 4
    /\ 1 + dsdWorkerCount + pipelineCount = vCPUs

----------------------------------------------------------------------------
(* Claims about the flush path and the lifecycle *)

\* The trigger of the current flush was dispatched to shard s and taken by it.
TookTrigger(s) == nFlush > 0 /\ trigEpoch(s) = nFlush /\ ~HasTrigger(s)

\* C1: ForceFlushToSerializer(start, waitForSerializer = true) returns only
\* after every shard's flush was drained by its send routine: each sink is
\* closed and each send routine has finished, a shard with nothing to flush
\* included, which completes with a count of zero; unless the serializer
\* reported an error, every flushed series was consumed and counted.  In both
\* modes it returns only once every trigger is dispatched.
C1_WaitReturnsAfterDrain ==
    (fpc = "returned") =>
        /\ fnext = NumShards + 1
        /\ fwait =>
             \A s \in Shards :
                /\ TookTrigger(s)
                /\ shardPc[s] = "recv"
                /\ sink[s].closed
                /\ sendPc[s] = "done"
                /\ (flushedOut[s] = <<>> => flushCount[s] = 0)
                /\ ~sendErr[s] =>
                      /\ sink[s].buf = <<>>
                      /\ sent[s] = Len(flushedOut[s])
                      /\ flushCount[s] = Len(flushedOut[s])

\* A waited flush has returned with one shard that had nothing to flush
\* (count zero) and one shard whose series were all sent.
C1_Witness ==
    /\ fpc = "returned"
    /\ fwait
    /\ \E s1, s2 \in Shards :
         /\ flushedOut[s1] = <<>> /\ flushCount[s1] = 0 /\ ~sendErr[s1]
         /\ flushedOut[s2] # <<>> /\ flushCount[s2] = Len(flushedOut[s2])
         /\ ~sendErr[s2] /\ sent[s2] = Len(flushedOut[s2])

\* C5: within one shard the output of a flush holds every sample enqueued to
\* the shard before the flush's trigger was dispatched (and after the previous
\* trigger) and no sample enqueued after the trigger was dispatched.
C5_FlushWindowBoundary ==
    \A s \in Shards :
        TookTrigger(s) => flushedOut[s] = Repeat(nFlush - 1, expected[s])

\* The second flush of a shard took a sample enqueued between the two
\* triggers while a sample enqueued after the second trigger waits in the
\* shard's channel or window.
C5_Witness ==
    \E s \in Shards :
        /\ nFlush = 2
        /\ TookTrigger(s)
        /\ flushedOut[s] = <<1>>
        /\ enqSince[s] > 0

\* C10: the lifecycle state only moves Created -> Running and
\* Running -> Stopped, and nothing leaves Stopped.
C10_Lifecycle ==
    [][/\ (state = "Stopped" => state' = "Stopped")
       /\ (state' # state =>
              \/ (state = "Created" /\ state' = "Running")
              \/ (state = "Running" /\ state' = "Stopped"))]_vars

\* A demultiplexer that ran, flushed, received samples and was stopped.
C10_Witness ==
    /\ state = "Stopped"
    /\ nFlush > 0
    /\ nSamples > 0

----------------------------------------------------------------------------
(* Claims about the senders registry *)

\* C2: of the SetSender calls for one id made while no sender is registered
\* for it, exactly one succeeds and all the others fail; at most one live
\* sender is registered per id in every reachable state.
C2_OneSetSenderWins ==
    \A i \in CheckIDs :
        /\ succ[i] <= 1
        /\ (fail[i] > 0 => succ[i] = 1)
        /\ (succ[i] = 1 <=> registry[i] # NoSender)

\* Two callers called SetSender for the same id on an empty registry: one
\* got nil, the other AlreadyExists.
C2_Witness ==
    \E c1, c2 \in Callers :
        /\ c1 # c2
        /\ nCalls = 2
        /\ cop[c1].op = "SetSender" /\ cop[c2].op = "SetSender"
        /\ cop[c1].id = cop[c2].id
        /\ cpc[c1] = "idle" /\ cres[c1].err = "nil"
        /\ cpc[c2] = "unlock" /\ cres[c2].err = "AlreadyExists"

\* C3: SetSender(s2, id) while s1 is registered for id fails with
\* AlreadyExists and leaves the registry unchanged (GetSender(id) still
\* returns s1).
C3_SecondSetSenderFails ==
    [][\A c \in Callers :
         /\ (cpc[c] = "check" /\ registry[cop[c].id] # NoSender /\ cpc'[c] # "check")
                => cpc'[c] = "reject"
         /\ (cpc[c] = "reject" /\ cpc'[c] = "unlock")
                => /\ cres'[c].err = "AlreadyExists"
                   /\ registry[cop[c].id] # NoSender
                   /\ registry' = registry]_vars

\* A SetSender of another sender for a registered id has been rejected and
\* the first sender is still the registered one.
C3_Witness ==
    \E c \in Callers :
        /\ cpc[c] = "unlock"
        /\ cop[c].op = "SetSender"
        /\ cres[c].err = "AlreadyExists"
        /\ registry[cop[c].id] # NoSender
        /\ registry[cop[c].id] # cop[c].sender

\* C4: DestroySender(id) raises no error on any registry, leaves the other
\* ids' mappings unchanged and is idempotent; after it GetSender(id) fails
\* with NotFound until a later SetSender for id succeeds.
C4_DestroyIdempotent ==
    /\ [][\A c \in Callers :
            (cpc[c] = "body" /\ cop[c].op = "DestroySender" /\ cpc'[c] = "unlock")
                => /\ cres'[c].err = "nil"
                   /\ registry'[cop[c].id] = NoSender
                   /\ \A j \in CheckIDs \ {cop[c].id} : registry'[j] = registry[j]
                   /\ RegistryAfterDestroy(registry', cop[c].id) = registry']_vars
    /\ [][\A c \in Callers :
            (cpc[c] = "body" /\ cop[c].op = "GetSender" /\ cpc'[c] = "unlock")
                => (cres'[c].err = "NotFound" <=> registry[cop[c].id] = NoSender)]_vars
    /\ [][\A i \in CheckIDs :
            (registry[i] = NoSender /\ registry'[i] # NoSender)
                => \E c \in Callers :
                     /\ cpc[c] = "insert" /\ cop[c].id = i
                     /\ cres'[c].err = "nil"]_vars

\* DestroySender of an id that holds no sender returned without error while
\* another id keeps its sender.
C4_Witness ==
    \E c \in Callers :
        /\ cpc[c] = "unlock"
        /\ cop[c].op = "DestroySender"
        /\ cres[c].err = "nil"
        /\ nCalls = 2
        /\ \E j \in CheckIDs \ {cop[c].id} : registry[j] # NoSender

----------------------------------------------------------------------------
(* Claims about the default sender *)

\* C11: under any number of concurrent GetDefaultSender callers, the default
\* sender is created at most once and every caller receives that same sender.
C11_DefaultSenderOnce ==
    /\ nCreated <= 1
    /\ \A c \in Callers :
          dres[c] # NoRes =>
              /\ dres[c].err = "nil"
              /\ dres[c].sender # NoSender
              /\ dres[c].sender = defaultSender
    /\ \A c, d \in Callers :
          (dres[c] # NoRes /\ dres[d] # NoRes) => dres[c].sender = dres[d].sender

\* Two callers hold the sender they were returned, a third call having been
\* started as well.
C11_Witness ==
    /\ nCreated = 1
    /\ nDefCalls >= 3
    /\ \E c, d \in Callers :
          /\ c # d
          /\ dres[c] # NoRes /\ dres[d] # NoRes
          /\ dres[c].sender = defaultSender

----------------------------------------------------------------------------
(* Claims about late metrics *)

\* C12: metrics submitted through AddLateMetrics are sent as-is: no entry of a
\* flush combines a late metric with a windowed sample, and the entry of a
\* late metric carries that metric alone, with its original timestamp.
C12_LateMetricsAsIs ==
    \A e \in lateOut :
        \/ \A i \in e.src : ~submitted[i].late
        \/ \E i \in e.src :
              /\ e.src = {i}
              /\ submitted[i].late
              /\ e.ts = submitted[i].ts
              /\ e.value = 1

\* A flush holding a late metric and a windowed series with the same timestamp.
C12_Witness ==
    \E e, w \in lateOut :
        /\ \E i \in e.src : submitted[i].late
        /\ \E i \in w.src : ~submitted[i].late
        /\ e.ts = w.ts

----------------------------------------------------------------------------
(* Claims about the PodCheck stub *)

\* C16: PodCheck.Run returns no messages and the "Not implemented" error on
\* every call, whatever the configuration, the group id and the calls made
\* before, and changes no state of the check.
C16_RunNotImplemented ==
    [][(nPodCalls' # nPodCalls /\ podLast'.op = "Run") =>
           /\ podLast'.msgs = "nil"
           /\ podLast'.err = "Not implemented"
           /\ sysInfo' = sysInfo]_vars

\* Run with group id 0 on a check that was initialised, two calls in.
C16_Witness ==
    /\ podLast.op = "Run"
    /\ podLast.arg = 0
    /\ podLast.err = "Not implemented"
    /\ sysInfo # NoInfo
    /\ nPodCalls >= 3

----------------------------------------------------------------------------
(* Claims about the send routine on a serializer failure *)

\* C17: when SendIterableSeries fails, the send routine still drains the sink
\* to completion (the flushing shard is not left blocked on it) and records
\* the count of what was actually processed before it returns.
C17_DrainsOnError ==
    \A s \in Shards :
        (sendPc[s] = "done" /\ sendErr[s]) =>
            /\ sink[s].closed
            /\ sink[s].buf = <<>>
            /\ pending[s] = <<>>
            /\ flushCount[s] = sent[s]

----------------------------------------------------------------------------
(* Claims about the log schedulers *)

\* C18: registering a scheduler before Start neither starts nor stops it;
\* Schedulers.Start starts it and does not stop it; Schedulers.Stop stops it;
\* so stopped implies started, and neither flag is ever reset.
C18_SchedulerFlags ==
    [][/\ \A s \in Scheds :
             /\ stopped'[s] => started'[s]
             /\ started[s] => started'[s]
             /\ stopped[s] => stopped'[s]
       /\ schedulers' # schedulers => (started' = started /\ stopped' = stopped)
       /\ schPc' = "add" =>
             \A s \in Scheds : ~started'[s] /\ ~stopped'[s]
       /\ schPc' = "run" =>
             \A s \in Registered' : started'[s] /\ ~stopped'[s]
       /\ schPc' = "end" =>
             \A s \in Registered' : started'[s] /\ stopped'[s]]_vars

\* Stop has returned with two schedulers or more registered.
C18_Witness ==
    /\ schPc = "end"
    /\ Len(schedulers) >= 2
    /\ \A s \in Registered : started[s] /\ stopped[s]

----------------------------------------------------------------------------
(* Claims about the container provider *)

\* A routine takes the step that ends the body of its accessor.
Reads(r) == rpc[r] = "read" /\ rpc'[r] = "ret"

\* A routine takes the step that publishes the snapshot of its Prefetch.
Publishes(r) == rpc[r] = "pfSwap" /\ rpc'[r] # "pfSwap"

\* C13: if a Prefetch call is not successful, all the per-container calls fail
\* (not found, or false for ContainerExists) until a later Prefetch succeeds,
\* whether or not an earlier Prefetch had succeeded.
C13_CallsFailAfterFailedPrefetch ==
    [][\A r \in Routines :
          (Reads(r) /\ lastPrefetch = "failed") =>
              \/ rres'[r].err = "container not found"
              \/ rres'[r].val = "false"]_vars

\* C14: an accessor returns the not-found error exactly when the id is absent
\* from the published snapshot, ContainerExists returns false in exactly
\* those cases, and every id is absent before the first successful Prefetch.
C14_NotFoundIffAbsent ==
    [][\A r \in Routines :
          Reads(r) =>
              LET absent == rop[r].id \notin DOMAIN containers
              IN  /\ rop'[r].op \in Accessors
                  /\ rop'[r].op = "ContainerExists" =>
                        /\ rres'[r].err = "nil"
                        /\ rres'[r].val = "false" <=> absent
                  /\ rop'[r].op # "ContainerExists" =>
                        /\ rres'[r].err = "container not found" <=> absent
                        /\ rres'[r].err = "nil" <=> ~absent
                  /\ published = NoSnapshot => absent]_vars

\* An accessor other than ContainerExists has found its container in a
\* published snapshot.
C14_Witness ==
    \E r \in Routines :
        /\ rpc[r] = "ret"
        /\ rop[r].op \in Accessors \ {"ContainerExists"}
        /\ rres[r].err = "nil"
        /\ published.n >= 1

\* C15: when inspecting or reading the stats of one container fails during
\* Prefetch, every other container of the listing, of the same batch and of
\* the other batches, is processed and published, and Prefetch succeeds.
C15_FaultSkipsOneItem ==
    [][\A r \in Routines :
          Publishes(r) =>
              /\ DOMAIN containers' = 1..rawContainers[r]
              /\ \A i \in 1..rawContainers[r] :
                    i # fault[r].id => containers'[i] = BundleOf(i, NoFault)
              /\ lastPrefetch' = "ok"
              /\ rop[r].op = "Prefetch" => rres'[r].err = "nil"]_vars

\* A Prefetch of a listing cut in batches has returned success although the
\* inspection of one container failed.
C15_Witness ==
    /\ published.n = BatchedListing
    /\ published.fault.id # 0
    /\ published.fault.inspect
    /\ Cardinality(BatchStarts(published.n)) > 1
    /\ rpc[Refresher] = "ret"
    /\ rop[Refresher].op = "Prefetch"
    /\ rres[Refresher].err = "nil"
    /\ containers[published.fault.id].limits = "nil"

\* C19: prefetchLock is never acquired by a routine that holds
\* containersLock; the only nesting is containersLock inside prefetchLock;
\* and no interleaving of the calls deadlocks: while a call is in progress,
\* some call can take a step.
C19_LockOrder ==
    /\ \A r \in Routines :
          /\ r \in containersLock.readers => rpc[r] = "read"
          /\ containersLock.writer = r => (rpc[r] = "pfSwap" /\ prefetchLock = r)
          /\ prefetchLock = r => rpc[r] \in {"pfList", "pfWork", "pfSwap"}
    /\ (\E r \in Routines : rpc[r] \notin {"idle", "ret"}) => ENABLED ProviderStep

\* A Prefetch is through with its workers and needs containersLock, which a
\* reader holds.
C19_Witness ==
    \E r, q \in Routines :
        /\ rpc[r] = "pfWork"
        /\ WorkersDone(r)
        /\ prefetchLock = r
        /\ q \in containersLock.readers

\* C20: Prefetch replaces the container map only after all of its batch
\* workers have finished, so that an accessor running concurrently with it
\* reads the complete previous snapshot or the complete new one.
C20_AtomicPublication ==
    [][/\ containers' # containers => \E r \in Routines : Publishes(r)
       /\ \A r \in Routines :
             Publishes(r) =>
                 /\ batchesDone[r] = BatchStarts(rawContainers[r])
                 /\ containersLock.readers = {}
                 /\ DOMAIN containers' = 1..rawContainers[r]
       /\ \A r \in Routines :
             Reads(r) =>
                 DOMAIN containers =
                     IF published = NoSnapshot THEN {} ELSE 1..published.n]_vars

\* An accessor has answered from the published snapshot while a Prefetch had
\* filled a different local map.
C20_Witness ==
    \E r, q \in Routines :
        /\ rpc[r] = "pfWork"
        /\ batchesDone[r] # {}
        /\ localMap[r] # containers
        /\ rpc[q] = "ret"
        /\ rop[q].op \in Accessors
        /\ published.n >= 1

\* A routine is inside Prefetch, past the acquisition of prefetchLock: it
\* lists, its workers inspect, or it swaps the map.
InPrefetch(r) == rpc[r] \in {"pfList", "pfWork", "pfSwap"}

\* C21: at most one Prefetch call, the one forced by GetAgentCID included,
\* is fetching container data at any time; it is the holder of prefetchLock,
\* and a Prefetch that starts meanwhile lists only after that one returned.
C21_OnePrefetchAtATime ==
    /\ \A r, q \in Routines : (InPrefetch(r) /\ InPrefetch(q)) => r = q
    /\ \A r \in Routines : InPrefetch(r) <=> prefetchLock = r
    /\ \A r \in Routines :
          (rawContainers[r] # NoListing \/ localMap[r] # EmptyMap) => InPrefetch(r)

\* The Prefetch forced by a GetAgentCID waits for prefetchLock while the
\* Prefetch of another routine is at its workers.
C21_Witness ==
    \E r, q \in Routines :
        /\ rpc[r] = "pfWork"
        /\ rop[r].op = "Prefetch"
        /\ rpc[q] = "pfLock"
        /\ rop[q].op = "GetAgentCID"

\* A Prefetch is listing or inspecting: it holds prefetchLock and has not
\* come to the end of wg.Wait().
Fetching(r) == rpc[r] = "pfList" \/ (rpc[r] = "pfWork" /\ ~WorkersDone(r))

\* C22: while a Prefetch is listing and inspecting containers, containersLock
\* is free of writers, so that every accessor call can acquire it and
\* complete, and the map it answers from is the previously published one.
C22_ReadersNotLockedOut ==
    \A r \in Routines :
        Fetching(r) =>
            /\ prefetchLock = r
            /\ containersLock.writer = NoRoutine
            /\ \A q \in Routines :
                  /\ rpc[q] = "rlock" => ENABLED AccessorRLock(q)
                  /\ rpc[q] = "read" => ENABLED AccessorRead(q)
            /\ DOMAIN containers =
                  IF published = NoSnapshot THEN {} ELSE 1..published.n

\* An accessor is about to take the read lock on a published snapshot while
\* the worker of a Prefetch has not stored its batch.
C22_Witness ==
    \E r, q \in Routines :
        /\ rpc[r] = "pfWork"
        /\ ~WorkersDone(r)
        /\ rpc[q] = "rlock"
        /\ published.n >= 1

----------------------------------------------------------------------------
(* Claims about the count read by the send routine *)

\* C23: sendIterableSeries reads the number of series from the source
\* (Count) only after SenderStopped has been called on the sink, in every
\* execution, those in which SendIterableSeries returns an error included.
C23_CountAfterSenderStopped ==
    [][\A s \in Shards :
          (sendPc[s] = "count" /\ sendPc'[s] = "done") => sink[s].closed]_vars

----------------------------------------------------------------------------
(* Claims about the values the provider hands out *)

\* C24: after any sequence of Prefetch calls, for every container id,
\* GetContainerMetrics and GetContainerLimits return a non-nil error or a
\* non-nil value, also for a container whose inspection or stats retrieval
\* failed during Prefetch.
C24_NoNilValueWithNilError ==
    [][\A r \in Routines :
          (Reads(r) /\ rop'[r].op \in {"GetContainerMetrics", "GetContainerLimits"}) =>
              ~(rres'[r].err = "nil" /\ rres'[r].val = "nil")]_vars

----------------------------------------------------------------------------
(* Claims about the accesses to agentCID *)

\* A worker of the Prefetch of r has the agent's container in a batch it has
\* not gone through: its next step may write mp.agentCID.
MayWriteAgentCID(r) ==
    /\ rpc[r] = "pfWork"
    /\ \E b \in BatchStarts(rawContainers[r]) \ batchesDone[r] :
          AgentContainer \in BatchOf(b, rawContainers[r])

\* The next step of q in GetAgentCID reads mp.agentCID; q holds no lock.
ReadsAgentCID(q) ==
    /\ rpc[q] \in {"cidCheck", "cidRead"}
    /\ prefetchLock # q
    /\ containersLock.writer # q
    /\ q \notin containersLock.readers

\* C25: agentCID is race-free: no two routines access it at the same time
\* when one of them writes it, across the batch workers of a Prefetch and
\* the concurrent callers of GetAgentCID.
C25_AgentCIDRaceFree ==
    \A r, q \in Routines : ~(MayWriteAgentCID(r) /\ ReadsAgentCID(q))

----------------------------------------------------------------------------
(* Claims about the batching loop of Prefetch *)

\* The batches spawned are pairwise disjoint and cover the listing.
LoopPartition ==
    /\ \A a, b \in loopBatches :
          a # b => BatchOf(a, loopLen) \cap BatchOf(b, loopLen) = {}
    /\ UNION {BatchOf(b, loopLen) : b \in loopBatches} = 1..loopLen
    /\ \A b \in loopBatches : BatchOf(b, loopLen) # {}

\* C26: for every length n >= 0 of the listing the batching loop of Prefetch
\* terminates, having spawned finitely many batches whose ranges are
\* pairwise disjoint and together cover exactly [0, n), so that every listed
\* container is processed exactly once; for n = 0 no batch is spawned and the
\* snapshot to publish is empty.
C26_BatchesPartitionListing ==
    /\ [](loopPc = "wait" =>
            /\ LoopPartition
            /\ Cardinality(loopBatches) <= loopLen
            /\ loopBatches = BatchStarts(loopLen)
            /\ loopLen = 0 => loopBatches = {})
    /\ (loopPc = "loop" ~> loopPc = "wait")

\* The loop is over for a listing cut in several batches, the last of them
\* shorter than the others.
C26_Witness ==
    /\ loopPc = "wait"
    /\ Cardinality(loopBatches) > 1
    /\ \E b \in loopBatches :
          Cardinality(BatchOf(b, loopLen)) < chunkSize(loopLen)

=============================================================================
